---- MODULE Spec2Model ----
(***************************************************************************)
(* Task tracker of src/main.py: the TaskRepository (an in-memory list of   *)
(* Task objects mirrored to a JSON document) and the interactive flows     *)
(* that drive it. The command-line demo of src/argparse_demo.py, a         *)
(* separate program, follows it.                                           *)
(*                                                                         *)
(* Python objects are modelled with a heap: `heap` holds, at each address  *)
(* in use, the fields of the Task object there; `tasks` (self.tasks) and   *)
(* `snap` (a list a caller got from all()) are sequences of addresses, so  *)
(* that two lists holding the same object alias it, as in Python.          *)
(* Timestamps are the integer second that isoformat(timespec="seconds")    *)
(* renders; the rendered text sorts as the integers do.                    *)
(***************************************************************************)
EXTENDS Integers, Sequences, FiniteSets, TLC

\* heap    the Task objects in use, by address
\* tasks   self.tasks: the addresses of the store's tasks, in order
\* snap    the list a caller got from all(): addresses
\* doc     the document at self.path (tasks.json)
\* clock   the local time datetime.now() reads
\* ret     the last call: its name, its result, whether it called _save
\* issued  history: the ids add has returned so far
\* run     one run of src/argparse_demo.py: its arguments, where it is, what
\*         it printed and how it ended
VARIABLES heap, tasks, snap, doc, clock, ret, issued, run

vars == <<heap, tasks, snap, doc, clock, ret, issued, run>>

\* no run of argparse_demo.py has been started
NotStarted == [pc |-> "none"]

(* ------------------------------ bounds --------------------------------- *)

\* longest self.tasks the model lets add build
MaxTasks == 2
\* last clock reading of the model
MaxClock == 1
\* longest list a caller holds after all()
MaxSnap == 2
\* most answers the priority prompt of add_task_flow gets in the model
MaxTries == 2
\* largest --times the model passes to greet
MaxTimes == 2
\* most numbers the model passes to calc
MaxNumbers == 2

\* largest id the model lets add issue
MaxId == MaxTasks + 1
Ids == 1..MaxId
Times == 0..MaxClock

(* ------------------------------ Task ----------------------------------- *)

Fields ==
  {"id", "title", "description", "status", "priority", "created_at", "updated_at"}

Statuses == {"todo", "in_progress", "done"}

Task(id, title, description, status, priority, created_at, updated_at) ==
  [id |-> id, title |-> title, description |-> description, status |-> status,
   priority |-> priority, created_at |-> created_at, updated_at |-> updated_at]

\* Python's None, as the address find returns when nothing matches
None == 0

Range(s) == {s[i] : i \in 1..Len(s)}

\* the Task records a list of addresses denotes
Values(h, ts) == [i \in 1..Len(ts) |-> h[ts[i]]]

(* --------------------------- JSON document ----------------------------- *)

JNumber(n) == [t |-> "number", n |-> n, s |-> ""]
JString(s) == [t |-> "string", n |-> 0, s |-> s]
\* a timestamp is a Python str; its text is the rendering of the second n
JStamp(n) == [t |-> "string", n |-> n, s |-> "iso"]

\* json.dump of one value, by the Python type of the field that holds it
JsonEncode(k, v) ==
  IF k \in {"id", "priority"} THEN JNumber(v)
  ELSE IF k \in {"created_at", "updated_at"} THEN JStamp(v)
  ELSE JString(v)

\* json.load of one value
JsonDecode(j) == IF j.t = "number" \/ j.s = "iso" THEN j.n ELSE j.s

\* dataclasses.asdict: the dict of a Task's fields
asdict(task) == [k \in Fields |-> task[k]]

\* json.dump(data, f): the text of a list of dicts
json_dump(data) ==
  [i \in 1..Len(data) |-> [k \in DOMAIN data[i] |-> JsonEncode(k, data[i][k])]]

\* json.load(f): the list of dicts a text holds
json_load(items) ==
  [i \in 1..Len(items) |-> [k \in DOMAIN items[i] |-> JsonDecode(items[i][k])]]

\* no file at self.path
AbsentDoc == [exists |-> FALSE, valid |-> FALSE, items |-> <<>>]
\* a file json.load accepts as a list of objects
JsonDoc(items) == [exists |-> TRUE, valid |-> TRUE, items |-> items]
\* a file json.load raises on
GarbageDoc == [exists |-> TRUE, valid |-> FALSE, items |-> <<>>]

\* Task.from_dict raises KeyError unless every field is a key of the dict
CanFromDict(data) == Fields \subseteq DOMAIN data

\* from_dict reading each timestamp from the other one's key
from_dict_swapped(data) ==
  Task(data["id"], data["title"], data["description"], data["status"],
       data["priority"], data["updated_at"], data["created_at"])

from_dict(data) ==
  Task(data["id"], data["title"], data["description"], data["status"],
       data["priority"], data["created_at"], data["updated_at"])

\* TaskRepository._load: the Task records the store starts with on document d
load(d) ==
  IF ~d.exists THEN <<>>
  ELSE IF ~d.valid THEN <<>>
  ELSE LET raw == json_load(d.items)
       IN IF \A i \in 1..Len(raw) : CanFromDict(raw[i])
          THEN [i \in 1..Len(raw) |-> from_dict(raw[i])]
          ELSE <<>>

\* _load reads d without raising
loads(d) ==
  /\ d.exists
  /\ d.valid
  /\ \A i \in 1..Len(d.items) : CanFromDict(json_load(d.items)[i])

\* TaskRepository._save: the document written for the collection ts on heap h
save(h, ts) ==
  JsonDoc(json_dump([i \in 1..Len(ts) |-> asdict(h[ts[i]])]))

(* ------------------------------ heap ------------------------------------ *)

RECURSIVE Dedup(_)
Dedup(s) ==
  IF s = <<>> THEN <<>>
  ELSE LET r == Dedup(SubSeq(s, 1, Len(s) - 1))
       IN IF s[Len(s)] \in Range(r) THEN r ELSE Append(r, s[Len(s)])

IndexOf(s, a) == CHOOSE i \in 1..Len(s) : s[i] = a

\* Objects nothing refers to are freed (reference counting), and addresses
\* are renamed in order of first reference: an address is not observable.
Live(ts, sn) == Dedup(ts \o sn)

Commit(h, ts, sn) ==
  IF sn = <<>>
  THEN /\ heap' = [a \in 1..Len(ts) |-> h[ts[a]]]
       /\ tasks' = [i \in 1..Len(ts) |-> i]
       /\ snap' = <<>>
  ELSE LET order == Live(ts, sn)
       IN /\ heap' = [a \in 1..Len(order) |-> h[order[a]]]
          /\ tasks' = [i \in 1..Len(ts) |-> i]
          /\ snap' = [i \in 1..Len(sn) |-> IndexOf(order, sn[i])]

\* the address a new object gets
Fresh == Len(heap) + 1

\* what the last call did: its name, its result (for add, that it returned a
\* task: the one appended last) and whether it called _save
Returned(op, ok, saved) == [op |-> op, ok |-> ok, saved |-> saved]

(* --------------------------- TaskRepository ----------------------------- *)

\* TaskRepository.__init__ on document d: a new process, a new store
Construct(d) ==
  LET vals == load(d)
  IN /\ Commit(vals, [i \in 1..Len(vals) |-> i], <<>>)
     /\ ret' = Returned("load", loads(d), FALSE)

Max(S) == CHOOSE m \in S : \A x \in S : x <= m

\* next_id as the length of the collection plus one
next_id_by_length == Len(tasks) + 1

\* next_id as the smallest id no task holds
next_id_fill_gap ==
  CHOOSE n \in 1..(Len(tasks) + 1) :
    /\ \A i \in 1..Len(tasks) : heap[tasks[i]].id # n
    /\ \A m \in 1..(n - 1) : \E i \in 1..Len(tasks) : heap[tasks[i]].id = m

next_id ==
  IF tasks = <<>> THEN 1
  ELSE Max({heap[tasks[i]].id : i \in 1..Len(tasks)}) + 1

\* the clock reading datetime.now() gives
now == clock

\* add putting the new task first instead of last
add_in_front(title, description, priority) ==
  /\ Len(tasks) < MaxTasks
  /\ next_id <= MaxId
  /\ LET task == Task(next_id, title, description, "todo", priority, now, now)
         h == Append(heap, task)
         ts == <<Fresh>> \o tasks
     IN /\ Commit(h, ts, snap)
        /\ doc' = save(h, ts)
        /\ ret' = Returned("add", TRUE, TRUE)
        /\ issued' = issued \cup {task.id}
  /\ UNCHANGED <<clock, run>>

add(title, description, priority) ==
  /\ Len(tasks) < MaxTasks
  /\ next_id <= MaxId
  /\ LET task == Task(next_id, title, description, "todo", priority, now, now)
         h == Append(heap, task)
         ts == Append(tasks, Fresh)
     IN /\ Commit(h, ts, snap)
        /\ doc' = save(h, ts)
        /\ ret' = Returned("add", TRUE, TRUE)
        /\ issued' = issued \cup {task.id}
  /\ UNCHANGED <<clock, run>>

\* find returning its loop variable when no task matched
find_loop_variable(task_id) ==
  IF \E i \in 1..Len(tasks) : heap[tasks[i]].id = task_id
  THEN tasks[CHOOSE i \in 1..Len(tasks) :
               /\ heap[tasks[i]].id = task_id
               /\ \A j \in 1..(i - 1) : heap[tasks[j]].id # task_id]
  ELSE IF tasks = <<>> THEN None ELSE tasks[Len(tasks)]

find(task_id) ==
  IF \E i \in 1..Len(tasks) : heap[tasks[i]].id = task_id
  THEN tasks[CHOOSE i \in 1..Len(tasks) :
               /\ heap[tasks[i]].id = task_id
               /\ \A j \in 1..(i - 1) : heap[tasks[j]].id # task_id]
  ELSE None

update_status(task_id, new_status) ==
  /\ LET task == find(task_id)
     IN IF task = None
        THEN /\ ret' = Returned("update_status", FALSE, FALSE)
             /\ UNCHANGED <<heap, tasks, snap, doc>>
        ELSE LET h == [heap EXCEPT ![task].status = new_status,
                                   ![task].updated_at = now]
             IN /\ Commit(h, tasks, snap)
                /\ doc' = save(h, tasks)
                /\ ret' = Returned("update_status", TRUE, TRUE)
  /\ UNCHANGED <<clock, issued, run>>

\* delete returning before _save whenever it can
delete_without_save(task_id) ==
  /\ LET ts == SelectSeq(tasks, LAMBDA a : heap[a].id # task_id)
     IN /\ Commit(heap, ts, snap)
        /\ ret' = Returned("delete", Len(ts) # Len(tasks), FALSE)
        /\ UNCHANGED doc
  /\ UNCHANGED <<clock, issued, run>>

\* delete calling _save before it compares the lengths
delete_save_first(task_id) ==
  /\ LET ts == SelectSeq(tasks, LAMBDA a : heap[a].id # task_id)
     IN /\ Commit(heap, ts, snap)
        /\ doc' = save(heap, ts)
        /\ ret' = Returned("delete", Len(ts) # Len(tasks), TRUE)
  /\ UNCHANGED <<clock, issued, run>>

delete(task_id) ==
  /\ LET before == Len(tasks)
         ts == SelectSeq(tasks, LAMBDA a : heap[a].id # task_id)
     IN IF Len(ts) = before
        THEN /\ Commit(heap, ts, snap)
             /\ ret' = Returned("delete", FALSE, FALSE)
             /\ UNCHANGED doc
        ELSE /\ Commit(heap, ts, snap)
             /\ doc' = save(heap, ts)
             /\ ret' = Returned("delete", TRUE, TRUE)
  /\ UNCHANGED <<clock, issued, run>>

filter_by_status(status) ==
  SelectSeq(tasks, LAMBDA a : heap[a].status = status)

\* the interpreter ends and main() constructs the store again on the document
Restart ==
  /\ Construct(doc)
  /\ UNCHANGED <<doc, clock, issued, run>>

(* ------------------------------- clock ---------------------------------- *)

\* time passes
Tick ==
  /\ clock < MaxClock
  /\ clock' = clock + 1
  /\ UNCHANGED <<heap, tasks, snap, doc, ret, issued, run>>

\* datetime.now() is naive local wall-clock time: it is set back at the end of
\* daylight saving time and whenever the system clock is adjusted
ClockSetBack ==
  /\ \E t \in Times : t < clock /\ clock' = t
  /\ UNCHANGED <<heap, tasks, snap, doc, ret, issued, run>>

(* ------------------------- store specification -------------------------- *)

Titles == {"x"}
Descriptions == {""}
Priorities == {3}

\* a store constructed where no document exists
Init ==
  /\ heap = <<>>
  /\ tasks = <<>>
  /\ snap = <<>>
  /\ doc = AbsentDoc
  /\ clock = 0
  /\ ret = Returned("load", FALSE, FALSE)
  /\ issued = {}
  /\ run = NotStarted

\* the calls that change the store
Mutation ==
  \/ \E t \in Titles, d \in Descriptions, p \in Priorities : add(t, d, p)
  \/ \E i \in Ids, s \in Statuses : update_status(i, s)
  \/ \E i \in Ids : delete(i)

StoreNext ==
  \/ Mutation
  \/ Restart
  \/ Tick

Next == StoreNext

Spec == Init /\ [][Next]_vars

\* documents of the persisted layout an earlier session can have left
LeftTodo == Task(1, "x", "", "todo", 3, 0, 0)
LeftDone == Task(2, "x", "", "done", 3, 0, 1)
LeftTwin == Task(1, "x", "", "in_progress", 3, 1, 1)

DocOf(ts) == JsonDoc(json_dump([i \in 1..Len(ts) |-> asdict(ts[i])]))

WellFormedDocs ==
  {AbsentDoc, DocOf(<<>>), DocOf(<<LeftDone>>), DocOf(<<LeftTodo, LeftDone>>),
   DocOf(<<LeftTodo, LeftTwin>>)}

\* a store constructed on an absent or well-formed document
InitLoaded ==
  /\ doc \in WellFormedDocs
  /\ heap = load(doc)
  /\ tasks = [i \in 1..Len(heap) |-> i]
  /\ snap = <<>>
  /\ clock = 0
  /\ ret = Returned("load", loads(doc), FALSE)
  /\ issued = {}
  /\ run = NotStarted

SpecLoaded == InitLoaded /\ [][Next]_vars

\* the same store under the wall clock, which can also be set back
WallClockNext == StoreNext \/ ClockSetBack

SpecWallClock == Init /\ [][WallClockNext]_vars

(* ------------------------- a caller of all() --------------------------- *)

\* TaskRepository.all: list(self.tasks), a new list of the same objects
all ==
  /\ Len(tasks) <= MaxSnap
  /\ Commit(heap, tasks, tasks)
  /\ ret' = Returned("all", TRUE, FALSE)
  /\ UNCHANGED <<doc, clock, issued, run>>

\* the caller appends a Task of its own to the list it got
CallerAppend ==
  /\ Len(snap) < MaxSnap
  /\ Commit(Append(heap, Task(MaxId, "mine", "", "done", 9, now, now)),
            tasks, Append(snap, Fresh))
  /\ UNCHANGED <<doc, clock, ret, issued, run>>

\* the caller removes element i of the list it got
CallerRemove(i) ==
  /\ i \in 1..Len(snap)
  /\ Commit(heap, tasks, SubSeq(snap, 1, i - 1) \o SubSeq(snap, i + 1, Len(snap)))
  /\ UNCHANGED <<doc, clock, ret, issued, run>>

\* the caller assigns a field of element i of the list it got
CallerAssign(i, field, value) ==
  /\ i \in 1..Len(snap)
  /\ Commit([heap EXCEPT ![snap[i]][field] = value], tasks, snap)
  /\ UNCHANGED <<doc, clock, ret, issued, run>>

CallerStep ==
  \/ CallerAppend
  \/ \E i \in 1..MaxSnap : CallerRemove(i)
  \/ \E i \in 1..MaxSnap : CallerAssign(i, "priority", 9)
  \/ \E i \in 1..MaxSnap : CallerAssign(i, "status", "done")

CallerNext == Mutation \/ all \/ CallerStep

SpecCaller == Init /\ [][CallerNext]_vars

(* ------------------------- the interactive tracker --------------------- *)

\* what the user can type at the title and description prompts
RawTexts == {"", " ", "x", " x "}

\* str.strip
Strip(s) == IF s = " " THEN "" ELSE IF s = " x " THEN "x" ELSE s

\* the integers the user can type at the priority prompt
PromptInts == {0, 1, 5, 6}

\* the answers the priority prompt gets, in order
Entries == UNION {[1..n -> PromptInts] : n \in 1..MaxTries}

\* the check of the priority loop: not 1 <= priority <= 5 raises ValueError
Accepted(priority) == 1 <= priority /\ priority <= 5

\* the early return of a flow that called no mutation
Declined(flow) ==
  /\ ret' = Returned(flow, FALSE, FALSE)
  /\ UNCHANGED <<heap, tasks, snap, doc, clock, issued, run>>

\* menu item 1: render_tasks_table(repo.all()), the list is dropped
show_all_tasks ==
  /\ ret' = Returned("all", TRUE, FALSE)
  /\ UNCHANGED <<heap, tasks, snap, doc, clock, issued, run>>

\* menu item 2; the priority loop ends at the first accepted answer
add_task_flow(raw_title, raw_description, entries) ==
  LET title == Strip(raw_title)
      first == CHOOSE i \in 1..Len(entries) :
                 /\ Accepted(entries[i])
                 /\ \A j \in 1..(i - 1) : ~Accepted(entries[j])
  IN IF title = ""
     THEN Declined("add_task_flow")
     ELSE /\ \E i \in 1..Len(entries) : Accepted(entries[i])
          /\ add(title, Strip(raw_description), entries[first])

\* menu item 3
change_status_flow(task_id, status) ==
  IF tasks = <<>> \/ find(task_id) = None
  THEN Declined("change_status_flow")
  ELSE update_status(task_id, status)

\* menu item 4
delete_task_flow(task_id, confirmed) ==
  IF tasks = <<>> \/ find(task_id) = None \/ ~confirmed
  THEN Declined("delete_task_flow")
  ELSE delete(task_id)

\* menu item 5: update_status(t.id, "done") for each selected task, one call
\* after the other; each call changes the first task that holds t.id
simulate_progress_flow ==
  LET in_progress == filter_by_status("in_progress")
      selected == IF in_progress # <<>> THEN in_progress ELSE filter_by_status("todo")
      found == {find(heap[selected[i]].id) : i \in 1..Len(selected)}
      h == [a \in 1..Len(heap) |->
              IF a \in found
              THEN [heap[a] EXCEPT !.status = "done", !.updated_at = now]
              ELSE heap[a]]
  IN IF selected = <<>>
     THEN Declined("simulate_progress_flow")
     ELSE /\ Commit(h, tasks, snap)
          /\ doc' = save(h, tasks)
          /\ ret' = Returned("update_status", TRUE, TRUE)
          /\ UNCHANGED <<clock, issued, run>>

\* documents main() can find at start-up, besides the well-formed ones: one
\* that is not JSON, one whose record lacks a field, one whose record holds a
\* priority of 9
LeftUrgent == Task(1, "x", "", "todo", 9, 0, 0)

TruncatedDoc ==
  JsonDoc(<<[k \in Fields \ {"priority"} |-> JsonEncode(k, LeftTodo[k])]>>)

TrackerDocs ==
  WellFormedDocs \cup {GarbageDoc, TruncatedDoc, DocOf(<<LeftUrgent>>)}

\* main(): repo = TaskRepository(DATA_FILE), whatever tasks.json holds
InitTracker ==
  /\ doc \in TrackerDocs
  /\ heap = load(doc)
  /\ tasks = [i \in 1..Len(heap) |-> i]
  /\ snap = <<>>
  /\ clock = 0
  /\ ret = Returned("load", loads(doc), FALSE)
  /\ issued = {}
  /\ run = NotStarted

\* the menu loop of main()
TrackerNext ==
  \/ show_all_tasks
  \/ \E t \in RawTexts, d \in RawTexts, e \in Entries : add_task_flow(t, d, e)
  \/ \E i \in Ids, s \in Statuses : change_status_flow(i, s)
  \/ \E i \in Ids, c \in BOOLEAN : delete_task_flow(i, c)
  \/ simulate_progress_flow
  \/ Restart
  \/ Tick

SpecTracker == InitTracker /\ [][TrackerNext]_vars

(* ---------------------- src/argparse_demo.py --------------------------- *)

\* the words given for calc's numbers: three that float() accepts (zero, a
\* finite number, infinity) and one it rejects
NumberTokens == {"0", "1.5", "inf", "x"}

\* the paths given to file stats: no such path, a directory, a text file, a
\* file that is not UTF-8
Paths == {"missing.txt", "dir", "notes.txt", "binary.dat"}

\* the values given to --output: none, a writable path, a path that cannot
\* be written
Outputs == {"", "out.txt", "/denied/out.txt"}

\* the command line, by what build_parser declares
Argv(command, file_command, times, shout, operation, numbers, format, path, verbose, output) ==
  [command |-> command, file_command |-> file_command, times |-> times,
   shout |-> shout, operation |-> operation, numbers |-> numbers,
   format |-> format, path |-> path, verbose |-> verbose, output |-> output]

Argvs ==
  UNION {
    {Argv("", "", 1, FALSE, "", <<>>, "", "", v, o) : v \in BOOLEAN, o \in Outputs},
    {Argv("greet", "", t, sh, "", <<>>, "", "", v, o) :
       t \in (-1)..MaxTimes, sh \in BOOLEAN, v \in BOOLEAN, o \in Outputs},
    {Argv("calc", "", 1, FALSE, op, ns, f, "", v, o) :
       op \in {"add", "sub", "mul", "div"},
       ns \in UNION {[1..n -> NumberTokens] : n \in 0..MaxNumbers},
       f \in {"", "int", "precise", "both"}, v \in BOOLEAN, o \in Outputs},
    {Argv("file", fc, 1, FALSE, "", <<>>, "", pa, v, o) :
       fc \in {"", "stats"}, pa \in Paths, v \in BOOLEAN, o \in Outputs}}

\* no COMMAND, or file without its FILE_CMD: both subparsers are required
NoSubcommand(argv) ==
  \/ argv.command = ""
  \/ argv.command = "file" /\ argv.file_command = ""

\* parser.parse_args calls parser.error, which raises SystemExit(2)
UsageError(argv) ==
  \/ NoSubcommand(argv)
  \/ /\ argv.command = "calc"
     /\ \/ argv.numbers = <<>>
        \/ \E i \in 1..Len(argv.numbers) : argv.numbers[i] = "x"
        \/ argv.format = "both"

\* how a handler ends: completed, or raised SystemExit(message), or raised
\* another exception
Completed == [raised |-> "", message |-> ""]
EarlyExit(message) == [raised |-> "SystemExit", message |-> message]
Unexpected(error) == [raised |-> "Exception", message |-> error]

\* write_output: path.write_text raises OSError where it cannot write
write_output(config) ==
  IF config.output = "/denied/out.txt" THEN Unexpected("PermissionError") ELSE Completed

\* get_config
get_config(args) == [verbose |-> args.verbose, output |-> args.output]

handle_greet(args, config) ==
  IF args.times < 1
  THEN EarlyExit("the number of repeats must be >= 1")
  ELSE write_output(config)

\* whether the float handle_calc computes is finite
FiniteResult(op, nums) ==
  IF op = "div"
  THEN nums[1] # "inf"
  ELSE \A i \in 1..Len(nums) : nums[i] # "inf"

handle_calc(args, config) ==
  LET nums == args.numbers
      op == args.operation
  IN IF op = "div" /\ \E i \in 2..Len(nums) : nums[i] = "0"
     THEN EarlyExit("division by zero is forbidden")
     ELSE IF args.format = "int" /\ ~FiniteResult(op, nums)
     THEN Unexpected("OverflowError")
     ELSE write_output(config)

handle_file_stats(args, config) ==
  IF args.path = "missing.txt" THEN EarlyExit("file not found")
  ELSE IF args.path = "dir" THEN EarlyExit("expected a file")
  ELSE IF args.path = "binary.dat" THEN Unexpected("UnicodeDecodeError")
  ELSE write_output(config)

\* args.func, as set_defaults of the chosen subparser set it
func(args, config) ==
  IF args.command = "greet" THEN handle_greet(args, config)
  ELSE IF args.command = "calc" THEN handle_calc(args, config)
  ELSE handle_file_stats(args, config)

\* int(text) returns for a numeral and raises ValueError for other text
IsNumeral(text) == text \in {"0", "1", "2"}

\* where a run is: pc; what it printed; how the handler ended; how main
\* ended (returned value, or raised exc with code value); the exit status
Run(pc, argv, printed, handler, exc, value) ==
  [pc |-> pc, argv |-> argv, printed |-> printed, handler |-> handler,
   exc |-> exc, value |-> value]

\* main, line 277: parser.parse_args(argv)
parse_args ==
  /\ run.pc = "start"
  /\ run' = IF UsageError(run.argv)
            THEN Run("raised", run.argv, {"usage"}, "", "SystemExit", 2)
            ELSE Run("parsed", run.argv, {}, "", "", 0)
  /\ UNCHANGED <<heap, tasks, snap, doc, clock, ret, issued>>

\* main, lines 278-295: the handler is called and its outcome turned into
\* the value main returns
call_handler ==
  /\ run.pc = "parsed"
  /\ LET args == run.argv
         outcome == func(args, get_config(args))
     IN run' =
          IF NoSubcommand(args)
          THEN Run("returned", args, {"help"}, "", "", 1)
          ELSE IF outcome.raised = ""
          THEN Run("returned", args, {"result"}, "", "", 0)
          ELSE IF outcome.raised = "SystemExit"
          THEN IF outcome.message = ""
               THEN Run("returned", args, {}, "SystemExit", "", 0)
               ELSE IF IsNumeral(outcome.message)
               THEN Run("returned", args, {"ERROR"}, "SystemExit", "", 1)
               ELSE Run("raised", args, {"ERROR"}, "SystemExit", "ValueError", 0)
          ELSE Run("returned", args, {"UNEXPECTED ERROR"}, "Exception", "", 1)
  /\ UNCHANGED <<heap, tasks, snap, doc, clock, ret, issued>>

\* lines 298-299, raise SystemExit(main()): the status the process ends with
interpreter_exit ==
  /\ run.pc \in {"returned", "raised"}
  /\ run' =
       IF run.pc = "raised" /\ run.exc = "ValueError"
       THEN Run("exited", run.argv, run.printed \cup {"traceback"}, run.handler,
                run.exc, 1)
       ELSE Run("exited", run.argv, run.printed, run.handler, run.exc, run.value)
  /\ UNCHANGED <<heap, tasks, snap, doc, clock, ret, issued>>

InitDemo ==
  /\ heap = <<>>
  /\ tasks = <<>>
  /\ snap = <<>>
  /\ doc = AbsentDoc
  /\ clock = 0
  /\ ret = Returned("load", FALSE, FALSE)
  /\ issued = {}
  /\ \E argv \in Argvs : run = Run("start", argv, {}, "", "", 0)

DemoNext ==
  \/ parse_args
  \/ call_handler
  \/ interpreter_exit

SpecDemo == InitDemo /\ [][DemoNext]_vars

(* ------------------------------- claims -------------------------------- *)

\* the in-memory collection, in order
Collection == Values(heap, tasks)

\* the ids the tasks of the store hold
StoreIds == {heap[tasks[i]].id : i \in 1..Len(tasks)}

\* the task a step appended last
Added == heap'[tasks'[Len(tasks')]]

\* C1: from an empty store with no document, after any sequence of add,
\* update_status and delete calls, the ids of the tasks in the store are
\* pairwise distinct.
C1_IdsPairwiseDistinct ==
  \A i, j \in 1..Len(tasks) : i # j => heap[tasks[i]].id # heap[tasks[j]].id

\* two tasks in the store, the second added after an earlier task was deleted
C1_Witness ==
  /\ ret.op = "add"
  /\ Len(tasks) = 2
  /\ \E i \in issued : i \notin StoreIds

\* C2: every add returns a task whose id is 1 on an empty store and otherwise
\* max(ids in the store) + 1, hence greater than every id present before the
\* call; the task is appended last, with the caller's title, description and
\* priority, status "todo" and created_at = updated_at.
C2_AddAssignsNextId ==
  [][\A t \in Titles, d \in Descriptions, p \in Priorities :
       ret'.op = "add" /\ add(t, d, p) =>
         /\ Added.id = (IF Len(tasks) = 0 THEN 1 ELSE Max(StoreIds) + 1)
         /\ \A i \in StoreIds : Added.id > i
         /\ Len(tasks') = Len(tasks) + 1
         /\ SubSeq(Collection', 1, Len(tasks)) = Collection
         /\ Added.status = "todo"
         /\ Added.created_at = Added.updated_at
         /\ Added.created_at = clock
         /\ <<Added.title, Added.description, Added.priority>> = <<t, d, p>>]_vars

\* an add on a store whose ids have a gap: the first task's id is not 1
C2_Witness ==
  /\ ret.op = "add"
  /\ Len(tasks) = 2
  /\ heap[tasks[1]].id > 1
  /\ heap[tasks[2]].id = heap[tasks[1]].id + 1

\* C3 as stated: the id each add returns is strictly greater than the id
\* every earlier add returned, deleted tasks included (no id is issued twice).
C3_NeverIssuedTwice ==
  [][\A t \in Titles, d \in Descriptions, p \in Priorities :
       ret'.op = "add" /\ add(t, d, p) => \A i \in issued : Added.id > i]_vars

\* C3 as amended: the id each add returns is strictly greater than the id
\* returned by every earlier add whose task is still in the store; the id of
\* a deleted task is issued again once no task with that id or a greater one
\* is left.
C3_GreaterThanIssuedAndHeld ==
  [][\A t \in Titles, d \in Descriptions, p \in Priorities :
       ret'.op = "add" /\ add(t, d, p) =>
         \A i \in issued : (\E k \in 1..Len(tasks) : heap[tasks[k]].id = i) => Added.id > i]_vars

\* an add that returned an id above a held one while a lower id was deleted
C3_Witness ==
  /\ ret.op = "add"
  /\ Len(tasks) = 2
  /\ \E i \in issued : i \notin StoreIds /\ i < heap[tasks[1]].id

\* the list of dicts the document holds; none when there is no document
DocContent == IF doc.exists THEN json_load(doc.items) ELSE <<>>

\* C4: for a store constructed on an absent or well-formed document, after
\* every add, update_status or delete call returns, found or not, the
\* document holds the whole in-memory collection, in the same order (an
\* absent document counting as the empty collection).
C4_DocumentMirrorsCollection ==
  ret.op \in {"add", "update_status", "delete"} =>
    /\ doc.exists => doc.valid
    /\ DocContent = [i \in 1..Len(tasks) |-> asdict(Collection[i])]

\* a delete that found nothing, on a store loaded from a document of two
\* tasks, one of them updated since
C4_Witness ==
  /\ ret.op = "delete"
  /\ ~ret.ok
  /\ Len(tasks) = 2
  /\ issued = {}
  /\ heap[tasks[2]].id = 2
  /\ heap[tasks[2]].status = "todo"

\* C5: constructing a new store on a document _save has just written yields
\* the same tasks, the same value in each of the seven fields, in the same
\* order.
C5_SaveLoadRoundTrip ==
  [][ret.saved /\ ret'.op = "load" /\ Restart =>
       /\ Len(tasks') = Len(tasks)
       /\ \A i \in 1..Len(tasks) : \A k \in Fields :
             heap'[tasks'[i]][k] = heap[tasks[i]][k]]_vars

\* a store reloaded with two tasks that differ, one of them updated after
\* it was created
C5_Witness ==
  /\ ret.op = "load"
  /\ ret.ok
  /\ Len(tasks) = 2
  /\ issued # {}
  /\ heap[tasks[1]].status # heap[tasks[2]].status
  /\ \E i \in 1..2 : heap[tasks[i]].updated_at > heap[tasks[i]].created_at

\* C6: delete(id) with an id no task holds returns false, leaves the
\* collection as it was and does not write the document.
C6_DeleteMissingChangesNothing ==
  [][\A id \in Ids :
       id \notin StoreIds /\ ret'.op = "delete" /\ delete(id) =>
         /\ ~ret'.ok
         /\ ~ret'.saved
         /\ Collection' = Collection
         /\ doc' = doc]_vars

\* a delete that found nothing in a store of two tasks
C6_Witness ==
  /\ ret.op = "delete"
  /\ ~ret.ok
  /\ Len(tasks) = 2

\* C7: update_status(id, newStatus) returns true exactly when a task with
\* that id is in the store; when none is, it returns false, changes no field
\* of any task and does not write the document.
C7_UpdateStatusFindsOrFails ==
  [][\A id \in Ids, st \in Statuses :
       ret'.op = "update_status" /\ update_status(id, st) =>
         /\ ret'.ok <=> id \in StoreIds
         /\ id \notin StoreIds =>
               /\ ~ret'.saved
               /\ Collection' = Collection
               /\ doc' = doc]_vars

\* an update_status that found nothing in a store of two tasks
C7_Witness ==
  /\ ret.op = "update_status"
  /\ ~ret.ok
  /\ Len(tasks) = 2

\* C8: in every state reachable by add, update_status and delete calls, every
\* task has updated_at >= created_at (update_status never stores a clock
\* reading earlier than the one already there).
C8_UpdatedNotBeforeCreated ==
  \A i \in 1..Len(tasks) : heap[tasks[i]].updated_at >= heap[tasks[i]].created_at

\* C9: all() returns an independent snapshot: nothing a caller does to the
\* returned list or to the task records in it changes the store's
\* collection, nor what a later mutation persists.
C9_SnapshotIsIndependent ==
  [][CallerStep => Collection' = Collection]_vars

\* C10: from start-up on whatever document is present, through any sequence
\* of menu actions, the priority of every task in the store is within [1, 5]
\* and no task with a priority outside [1, 5] is written to the document.
C10_PriorityAlwaysInRange ==
  /\ \A i \in 1..Len(tasks) : Accepted(heap[tasks[i]].priority)
  /\ ret.saved => \A i \in 1..Len(doc.items) : Accepted(doc.items[i]["priority"].n)

\* C11: main(argv) of the argparse demo ends with exit code 0 when the
\* handler completes, with 1 when no subcommand is given or the handler
\* raises an unexpected exception, and otherwise with the code carried by
\* the SystemExit the handler raised for invalid input; in that case a
\* message for the user is shown and the exit code is not zero.
C11_ExitCodes ==
  run.pc = "exited" =>
    /\ "result" \in run.printed => run.value = 0
    /\ NoSubcommand(run.argv) => run.value = 1
    /\ run.handler = "Exception" => run.value = 1
    /\ run.handler = "SystemExit" =>
          /\ "ERROR" \in run.printed
          /\ run.value # 0
          /\ run.exc = ""

====
